---- MODULE Spec2Model ----
(***************************************************************************)
(* A state-machine model of cppcmb.hpp (generic parser combinators for     *)
(* C++17): the reader, the result model, the combinator identity counter   *)
(* and the action combinator.                                              *)
(*                                                                         *)
(* Each part of the header has a specification of its own:                 *)
(*   SpecReader   reader<Src>: construction, copy, seek, next              *)
(*   SpecResult   result<T>: construction, is_success/is_failure, the      *)
(*                success()/failure() accessors in their four forms        *)
(*   SpecCmb      combinator_base identities, copies, operator[], action   *)
(*   SpecRace     two threads constructing combinators                     *)
(***************************************************************************)
EXTENDS Integers, Sequences, FiniteSets, TLC

(***************************************************************************)
(* Bounds of the model.                                                    *)
(***************************************************************************)
\* longest source a reader is built over
MaxLen == 3

\* largest argument handed to seek(), one past the longest source's end
MaxIdx == MaxLen + 1

\* largest remaining() and furthest() of an outcome
MaxPos == 2

\* the values a parser produces
Values == {"x", "y"}

Alphabet == <<"a", "b", "c", "d", "e", "f">>

\* the sources: "", "a", "ab", "abc", ...
Sources == { SubSeq(Alphabet, 1, n) : n \in 0..MaxLen }

\* the addresses of the Src objects readers refer to
Addr == {"s1", "s2"}

ReaderIds == {"r1", "r2"}

NoReader == [m_Source |-> "null", m_Cursor |-> 0]

NoCall == [op |-> "none"]

ResIds == {"q1", "q2"}

NoResult == [m_Data |-> [type |-> "none"]]

NoOutcome == [type |-> "none"]

Threads == {"t1", "t2"}

\* the transform functions handed to operator[]
Fns == {"uppercase", "identity"}

\* most combinator instances constructed in one run
MaxObjs == 4

VARIABLES
    proc,       \* "running", "aborted" (assert failed), "terminated" (uncaught exception)
    call,       \* the last operation called, with what it was called on
    ndebug,     \* the build defines NDEBUG: cppcmb_assert expands to nothing
    contract,   \* every asserted condition evaluated so far was true
    mem,        \* the Src objects, by address
    readers,    \* the reader objects: m_Source, m_Cursor
    origin,     \* how each reader came to be: "none", "ctor", "copy"
    results,    \* the result<T> objects: m_Data
    built,      \* what each result was constructed from: "none", "success", "failure"
    s_ID_Counter,   \* combinator_base::s_ID_Counter
    objs,       \* the combinator instances, in the order they were constructed
    outcome,    \* what the last invocation of a combinator returned
    synchronized,   \* the threads construct combinators under a common lock
    lock,       \* the thread holding that lock, or "free"
    pc,         \* where each thread is in constructing a combinator
    tmp         \* the value of s_ID_Counter each thread has read

readerVars == <<ndebug, contract, mem, readers, origin>>

resultVars == <<results, built>>

threadVars == <<synchronized, lock, pc, tmp>>

cmbVars == <<s_ID_Counter, objs, outcome, threadVars>>

vars == <<proc, call, readerVars, resultVars, cmbVars>>

\* the reader part, when nothing uses it
ReaderIdle ==
    /\ ndebug = FALSE
    /\ contract = TRUE
    /\ mem = [a \in Addr |-> <<>>]
    /\ readers = [r \in ReaderIds |-> NoReader]
    /\ origin = [r \in ReaderIds |-> "none"]

\* the result part, when nothing uses it
ResultIdle ==
    /\ results = [q \in ResIds |-> NoResult]
    /\ built = [q \in ResIds |-> "none"]

\* the threads, when nothing uses them
ThreadsIdle ==
    /\ synchronized = TRUE
    /\ lock = "free"
    /\ pc = [t \in Threads |-> "idle"]
    /\ tmp = [t \in Threads |-> 0]

\* the combinator part, when nothing uses it
CmbIdle ==
    /\ s_ID_Counter = 0
    /\ objs = <<>>
    /\ outcome = NoOutcome
    /\ ThreadsIdle

(***************************************************************************)
(* reader<Src>                                                             *)
(***************************************************************************)
live(r) == readers[r] # NoReader

\* reader::source()
source(rd) == mem[rd.m_Source]

\* reader::cursor()
cursor(rd) == rd.m_Cursor

\* std::size(source())
size(rd) == Len(source(rd))

\* reader::is_end()
is_end(rd) == cursor(rd) = size(rd)

\* reader::current(): the element under the cursor; reading at or past the end is
\* an out-of-bounds read, whose outcome is any element or a crash
current(rd) ==
    IF cursor(rd) < size(rd)
    THEN {source(rd)[cursor(rd) + 1]}
    ELSE {Alphabet[i] : i \in 1..Len(Alphabet)} \cup {"crash"}

\* the condition seek() asserts
seek_assert_none(idx, n) == TRUE

seek_assert(idx, n) == idx < n

\* the condition next() asserts
next_assert(rd) == ~is_end(rd)

\* m_Cursor = idx, in every reader (a cursor shared between the copies)
set_cursor_shared(rds, r, idx) ==
    [x \in ReaderIds |->
        IF rds[x] # NoReader THEN [rds[x] EXCEPT !.m_Cursor = idx] ELSE NoReader]

\* m_Cursor = idx
set_cursor(rds, r, idx) == [rds EXCEPT ![r].m_Cursor = idx]

\* cppcmb_assert(msg, cond): abort() when cond is false, nothing under NDEBUG
assert_fires(cond) == ~ndebug /\ ~cond

\* the body of seek(idx) on reader r; met says whether the conditions asserted
\* before it were true
seek(r, idx, met) ==
    LET ok == seek_assert(idx, size(readers[r])) IN
    /\ contract' = (met /\ ok)
    /\ IF assert_fires(ok)
       THEN /\ proc' = "aborted"
            /\ readers' = readers
       ELSE /\ proc' = "running"
            /\ readers' = set_cursor(readers, r, idx)

Construct(r, a) ==
    /\ proc = "running"
    /\ ~live(r)
    /\ readers' = [readers EXCEPT ![r] = [m_Source |-> a, m_Cursor |-> 0]]
    /\ origin' = [origin EXCEPT ![r] = "ctor"]
    /\ call' = [op |-> "reader", rd |-> r]
    /\ UNCHANGED <<proc, ndebug, contract, mem, resultVars, cmbVars>>

\* the implicit copy constructor: the same source pointer, the same cursor
Copy(r, o) ==
    /\ proc = "running"
    /\ ~live(r)
    /\ live(o)
    /\ readers' = [readers EXCEPT ![r] = readers[o]]
    /\ origin' = [origin EXCEPT ![r] = "copy"]
    /\ call' = [op |-> "copy", rd |-> r, from |-> o]
    /\ UNCHANGED <<proc, ndebug, contract, mem, resultVars, cmbVars>>

Seek(r, idx) ==
    /\ proc = "running"
    /\ live(r)
    /\ seek(r, idx, contract)
    /\ call' = [op |-> "seek", rd |-> r, idx |-> idx]
    /\ UNCHANGED <<ndebug, mem, origin, resultVars, cmbVars>>

Next(r) ==
    /\ proc = "running"
    /\ live(r)
    /\ cursor(readers[r]) < MaxIdx
    /\ call' = [op |-> "next", rd |-> r, pre |-> cursor(readers[r]),
                was_end |-> is_end(readers[r])]
    /\ IF assert_fires(next_assert(readers[r]))
       THEN /\ proc' = "aborted"
            /\ contract' = FALSE
            /\ readers' = readers
       ELSE seek(r, cursor(readers[r]) + 1, contract /\ next_assert(readers[r]))
    /\ UNCHANGED <<ndebug, mem, origin, resultVars, cmbVars>>

InitReader ==
    /\ proc = "running"
    /\ call = NoCall
    /\ ndebug \in BOOLEAN
    /\ contract = TRUE
    /\ mem \in [Addr -> Sources]
    /\ readers = [r \in ReaderIds |-> NoReader]
    /\ origin = [r \in ReaderIds |-> "none"]
    /\ ResultIdle
    /\ CmbIdle

NextReader ==
    \/ \E r \in ReaderIds, a \in Addr : Construct(r, a)
    \/ \E r \in ReaderIds, o \in ReaderIds : Copy(r, o)
    \/ \E r \in ReaderIds, idx \in 0..MaxIdx : Seek(r, idx)
    \/ \E r \in ReaderIds : Next(r)

SpecReader == InitReader /\ [][NextReader]_vars

(***************************************************************************)
(* Properties of the reader.                                               *)
(***************************************************************************)
\* the reader the last call was made on
target == readers[call.rd]

\* C1: in a build with assertions, seek(idx) with 0 <= idx <= L (idx = L included)
\* is accepted and leaves cursor() = idx, and seek(idx) with idx > L aborts.
C1_SeekAcceptsUpToLength ==
    (~ndebug /\ call.op = "seek") =>
        IF call.idx <= size(target)
        THEN proc = "running" /\ cursor(target) = call.idx
        ELSE proc = "aborted"

\* C2: in a build with assertions, next() called where is_end() is false raises
\* no contract violation and moves the cursor forward by one.
C2_NextBeforeEndAdvances ==
    (~ndebug /\ call.op = "next" /\ ~call.was_end) =>
        proc = "running" /\ cursor(target) = call.pre + 1

\* C3: as long as every asserted condition was true, each reader has
\* 0 <= cursor() <= length(source) and is_end() iff cursor() = length(source);
\* a fresh reader has cursor() = 0 and is_end() = (L = 0).
C3_CursorWithinSource ==
    contract =>
        /\ \A r \in ReaderIds :
              live(r) =>
                 /\ 0 <= cursor(readers[r])
                 /\ cursor(readers[r]) <= size(readers[r])
                 /\ is_end(readers[r]) <=> (cursor(readers[r]) = Len(mem[readers[r].m_Source]))
        /\ call.op = "reader" =>
              /\ cursor(target) = 0
              /\ is_end(target) <=> (size(target) = 0)

\* a reader moved by two next() calls and a seek(), all within the contract
C3_Witness ==
    /\ contract
    /\ call.op = "seek"
    /\ call.idx = size(target) - 1
    /\ call.idx > 0
    /\ \E r \in ReaderIds : r # call.rd /\ live(r) /\ cursor(readers[r]) = 2

\* what a step of the reader part may change
FrameStep ==
    /\ mem' = mem
    /\ \A r \in ReaderIds : r # call'.rd => readers'[r] = readers[r]
    /\ call'.op \in {"seek", "next"} =>
          readers'[call'.rd].m_Source = readers[call'.rd].m_Source
    /\ call'.op = "copy" => readers'[call'.rd] = readers[call'.from]

\* C10: seek and next change only the cursor of the reader they are called on,
\* never the source and never another reader; a copy starts at the original's
\* cursor over the same source.
C10_CursorOnlyEffect == [][FrameStep]_vars

\* a copy that has moved away from the original it was forked from
C10_Witness ==
    /\ call.op \in {"seek", "next"}
    /\ origin[call.rd] = "copy"
    /\ \E o \in ReaderIds :
          /\ o # call.rd
          /\ origin[o] = "ctor"
          /\ readers[o].m_Source = target.m_Source
          /\ cursor(readers[o]) = 1
          /\ cursor(target) = 2

(***************************************************************************)
(* success<T>, failure, result<T>                                          *)
(***************************************************************************)
\* success(val, rem)
success(val, rem) == [type |-> "success", m_Value |-> val, m_Remaining |-> rem]

\* failure(furth)
failure(furth) == [type |-> "failure", m_Furthest |-> furth]

\* success::value(), success::remaining(), failure::furthest()
value(s) == s.m_Value

remaining(s) == s.m_Remaining

furthest(f) == f.m_Furthest

\* what a result can be constructed from
Outcomes ==
    {success(v, n) : v \in Values, n \in 0..MaxPos} \cup {failure(n) : n \in 0..MaxPos}

\* a constructor that stores a success whatever it is given
result_ctor_success_only(val) == [m_Data |-> success("x", 0)]

\* result(TFwd&& val): m_Data(val); the variant holds the alternative of val's type
result_ctor(val) == [m_Data |-> val]

\* std::holds_alternative<A>(m_Data)
holds_alternative(alt, res) == res.m_Data.type = alt

\* result::is_success(), result::is_failure()
is_success(res) == holds_alternative("success", res)

is_failure(res) == holds_alternative("failure", res)

\* the four forms an accessor is called in: &, const&, &&, const&&
Forms == {"lvalue", "const_lvalue", "rvalue", "const_rvalue"}

made(q) == results[q] # NoResult

ResultCtor(q, val) ==
    /\ proc = "running"
    /\ ~made(q)
    /\ results' = [results EXCEPT ![q] = result_ctor(val)]
    /\ built' = [built EXCEPT ![q] = val.type]
    /\ call' = [op |-> "result", res |-> q]
    /\ UNCHANGED <<proc, readerVars, cmbVars>>

\* is_success() and is_failure(): const, they return a bool
Query(q, which) ==
    /\ proc = "running"
    /\ made(q)
    /\ call' = [op |-> which, res |-> q,
                ret |-> IF which = "is_success" THEN is_success(results[q])
                        ELSE is_failure(results[q])]
    /\ UNCHANGED <<proc, readerVars, resultVars, cmbVars>>

\* success() and failure(): std::get<A>(m_Data) returns a reference to the held
\* alternative, or throws std::bad_variant_access when another one is held; the
\* accessors are noexcept(false), so the exception leaves them
Access(q, alt, form) ==
    /\ proc = "running"
    /\ made(q)
    /\ call' = [op |-> alt, res |-> q, form |-> form,
                wrong |-> ~holds_alternative(alt, results[q])]
    /\ proc' = IF holds_alternative(alt, results[q]) THEN "running" ELSE "unwinding"
    /\ UNCHANGED <<readerVars, resultVars, cmbVars>>

\* a handler for std::bad_variant_access in the caller: execution goes on
Catch ==
    /\ proc = "unwinding"
    /\ proc' = "running"
    /\ UNCHANGED <<call, readerVars, resultVars, cmbVars>>

\* no handler: std::terminate()
Uncaught ==
    /\ proc = "unwinding"
    /\ proc' = "terminated"
    /\ UNCHANGED <<call, readerVars, resultVars, cmbVars>>

InitResult ==
    /\ proc = "running"
    /\ call = NoCall
    /\ ReaderIdle
    /\ ResultIdle
    /\ CmbIdle

NextResult ==
    \/ \E q \in ResIds, val \in Outcomes : ResultCtor(q, val)
    \/ \E q \in ResIds, which \in {"is_success", "is_failure"} : Query(q, which)
    \/ \E q \in ResIds, alt \in {"success", "failure"}, form \in Forms : Access(q, alt, form)
    \/ Catch
    \/ Uncaught

SpecResult == InitResult /\ [][NextResult]_vars

(***************************************************************************)
(* Properties of the result model.                                         *)
(***************************************************************************)
\* C4: after an access to the variant a result does not hold, execution never
\* goes on: the outcome is fatal, not an error the caller catches.
C4_WrongVariantIsFatal ==
    (call.op \in {"success", "failure"} /\ call.wrong) => proc # "running"

ExactlyOneVariant ==
    \A q \in ResIds :
        made(q) =>
            /\ is_success(results[q]) # is_failure(results[q])
            /\ is_success(results[q]) <=> (built[q] = "success")

QueriesKeepVariant ==
    call'.op \in {"is_success", "is_failure", "success", "failure"} =>
        results' = results

inst(id, how, from, type, parser, fn, yields) ==
    [m_ID |-> id, how |-> how, from |-> from, type |-> type,
     m_Parser |-> parser, m_Fn |-> fn, yields |-> yields]

\* s_ID_Counter++ that counts down
post_decrement(counter) == [value |-> counter, counter |-> counter - 1]

\* s_ID_Counter++: the value read, and the counter after it
post_increment(counter) == [value |-> counter, counter |-> counter + 1]

\* combinator_base::parser_id()
parser_id(o) == o.m_ID

\* the implicit copy and move constructors of a combinator: m_ID and the members
\* are copied; a copied action holds a copy of its m_Parser. The result is os with
\* the new instances appended, the copy of instance i last
RECURSIVE clone(_, _, _)
clone(os, i, how) ==
    IF os[i].type = "leaf"
    THEN Append(os, [os[i] EXCEPT !.how = how, !.from = i])
    ELSE LET inner == clone(os, os[i].m_Parser, how) IN
         Append(inner, [os[i] EXCEPT !.how = how, !.from = i, !.m_Parser = Len(inner)])

\* how many instances a copy of instance i adds
RECURSIVE weight(_, _)
weight(os, i) == IF os[i].type = "leaf" THEN 1 ELSE 1 + weight(os, os[i].m_Parser)

\* how operator[] hands its receiver to action(): this->self() in the & and
\* const& forms, std::move(this->self()) in the && and const&& forms (a const
\* rvalue binds to the copy constructor)
forwarded(form) == IF form = "rvalue" THEN "move" ELSE "copy"

\* the default constructor of a user's combinator type
NewLeaf(y) ==
    /\ proc = "running"
    /\ Len(objs) < MaxObjs
    /\ LET id == post_increment(s_ID_Counter) IN
          /\ s_ID_Counter' = id.counter
          /\ objs' = Append(objs, inst(id.value, "ctor", 0, "leaf", 0, "none", y))
    /\ call' = [op |-> "new", obj |-> Len(objs) + 1]
    /\ UNCHANGED <<proc, outcome, threadVars, readerVars, resultVars>>

\* Self copy(other) and Self moved(std::move(other))
CopyCmb(i, how) ==
    /\ proc = "running"
    /\ i \in 1..Len(objs)
    /\ Len(objs) + weight(objs, i) <= MaxObjs
    /\ objs' = clone(objs, i, how)
    /\ call' = [op |-> how, obj |-> Len(objs) + weight(objs, i), from |-> i]
    /\ UNCHANGED <<proc, s_ID_Counter, outcome, threadVars, readerVars, resultVars>>

\* combinator::operator[](fn): return action(self, fn). The action's
\* combinator_base is default-initialised (a new identity), its m_Parser is
\* copy- or move-constructed from the receiver. (As the header is written,
\* crtp<Self> is a private base, so instantiating self() is ill-formed; the
\* operation is modelled as its body reads.)
Subscript(i, fn, form) ==
    /\ proc = "running"
    /\ i \in 1..Len(objs)
    /\ Len(objs) + weight(objs, i) + 1 <= MaxObjs
    /\ LET id == post_increment(s_ID_Counter)
           wrapped == clone(objs, i, forwarded(form)) IN
          /\ s_ID_Counter' = id.counter
          /\ objs' = Append(wrapped,
                            inst(id.value, "ctor", 0, "action", Len(wrapped), fn, NoOutcome))
    /\ call' = [op |-> "subscript", obj |-> Len(objs) + weight(objs, i) + 1, from |-> i,
                form |-> form]
    /\ UNCHANGED <<proc, outcome, threadVars, readerVars, resultVars>>

\* class action stores m_Parser and m_Fn and declares no operation that parses
\* ("XXX Implement"): invoking it yields no outcome
action_invoke(os, i) == NoOutcome

\* what invoking instance i returns
invoke(os, i) == IF os[i].type = "leaf" THEN os[i].yields ELSE action_invoke(os, i)

Invoke(i) ==
    /\ proc = "running"
    /\ i \in 1..Len(objs)
    /\ outcome' = invoke(objs, i)
    /\ call' = [op |-> "invoke", obj |-> i]
    /\ UNCHANGED <<proc, s_ID_Counter, objs, threadVars, readerVars, resultVars>>

\* the outcomes of the stub parsers: one that succeeds, one that fails
LeafYields == {success("x", MaxPos), failure(MaxPos)}

InitCmb ==
    /\ proc = "running"
    /\ call = NoCall
    /\ ReaderIdle
    /\ ResultIdle
    /\ CmbIdle

NextCmb ==
    \/ \E y \in LeafYields : NewLeaf(y)
    \/ \E i \in 1..MaxObjs, how \in {"copy", "move"} : CopyCmb(i, how)
    \/ \E i \in 1..MaxObjs, fn \in Fns, form \in Forms : Subscript(i, fn, form)
    \/ \E i \in 1..MaxObjs : Invoke(i)

SpecCmb == InitCmb /\ [][NextCmb]_vars

(***************************************************************************)
(* Properties of the combinators in one thread.                            *)
(***************************************************************************)
\* C5: any two distinct combinator instances have different identities, copies
\* and the combinator wrapped inside an action included.
C5_InstancesHaveDistinctIds ==
    \A i, j \in 1..Len(objs) : i # j => parser_id(objs[i]) # parser_id(objs[j])

FreshIdsIncrease ==
    \A i, j \in 1..Len(objs) :
        (i < j /\ objs[i].how = "ctor" /\ objs[j].how = "ctor") =>
            parser_id(objs[i]) < parser_id(objs[j])

\* C6: combinators constructed afresh one after the other in one thread get
\* strictly increasing identities, and the shared counter never decreases.
C6_FreshIdsIncrease ==
    []FreshIdsIncrease /\ [][s_ID_Counter' >= s_ID_Counter]_vars

\* three combinators constructed afresh, an action among them
C6_Witness ==
    /\ Cardinality({i \in 1..Len(objs) : objs[i].how = "ctor"}) >= 3
    /\ \E i \in 1..Len(objs) : objs[i].how = "ctor" /\ objs[i].type = "action"
    /\ s_ID_Counter = 3

\* the transform functions
apply(fn, v) ==
    IF fn = "uppercase" THEN (IF v = "x" THEN "X" ELSE IF v = "y" THEN "Y" ELSE v) ELSE v

\* the outcome of instance i with the transforms of the actions around it
\* applied to a success and a failure passed through
RECURSIVE mapped(_, _)
mapped(os, i) ==
    IF os[i].type = "leaf"
    THEN os[i].yields
    ELSE LET r == mapped(os, os[i].m_Parser) IN
         IF r.type = "success"
         THEN success(apply(os[i].m_Fn, value(r)), remaining(r))
         ELSE r

\* C8: invoking an action cmb[fn] returns Success(fn(v), r) when cmb yields
\* Success(v, r), and Failure(f) unchanged when cmb yields Failure(f).
C8_ActionMapsSuccessOnly ==
    (call.op = "invoke" /\ objs[call.obj].type = "action") =>
        outcome = mapped(objs, call.obj)

(***************************************************************************)
(* Two threads constructing combinators.  m_ID = s_ID_Counter++ on a plain *)
(* std::size_t is a read of the counter, a write of the value read plus    *)
(* one, and the initialisation of m_ID with the value read; nothing makes  *)
(* the three one step.  When the threads are synchronized, each holds a    *)
(* common lock for the whole construction.                                 *)
(***************************************************************************)
\* the counter after s_ID_Counter++ when the increment is lost
incremented_lost(v) == v

\* the value s_ID_Counter++ writes back, from the value it read
incremented(v) == post_increment(v).counter

\* constructions begun and not finished
underway == Cardinality({t \in Threads : pc[t] # "idle"})

Begin(t) ==
    /\ proc = "running"
    /\ pc[t] = "idle"
    /\ Len(objs) + underway < MaxObjs
    /\ synchronized => lock = "free"
    /\ lock' = IF synchronized THEN t ELSE lock
    /\ pc' = [pc EXCEPT ![t] = "read"]
    /\ call' = [op |-> "begin", thread |-> t]
    /\ UNCHANGED <<proc, s_ID_Counter, objs, outcome, synchronized, tmp,
                   readerVars, resultVars>>

\* the read of s_ID_Counter
Load(t) ==
    /\ pc[t] = "read"
    /\ tmp' = [tmp EXCEPT ![t] = s_ID_Counter]
    /\ pc' = [pc EXCEPT ![t] = "write"]
    /\ call' = [op |-> "load", thread |-> t]
    /\ UNCHANGED <<proc, s_ID_Counter, objs, outcome, synchronized, lock,
                   readerVars, resultVars>>

\* the write of s_ID_Counter
Store(t) ==
    /\ pc[t] = "write"
    /\ s_ID_Counter' = incremented(tmp[t])
    /\ pc' = [pc EXCEPT ![t] = "init"]
    /\ call' = [op |-> "store", thread |-> t]
    /\ UNCHANGED <<proc, objs, outcome, synchronized, lock, tmp, readerVars, resultVars>>

\* m_ID is initialised and the construction ends
Finish(t) ==
    /\ pc[t] = "init"
    /\ objs' = Append(objs, inst(tmp[t], "ctor", 0, "leaf", 0, "none", NoOutcome))
    /\ pc' = [pc EXCEPT ![t] = "idle"]
    /\ lock' = IF synchronized THEN "free" ELSE lock
    /\ call' = [op |-> "new", obj |-> Len(objs) + 1, thread |-> t]
    /\ UNCHANGED <<proc, s_ID_Counter, outcome, synchronized, tmp, readerVars, resultVars>>

InitRace ==
    /\ proc = "running"
    /\ call = NoCall
    /\ ReaderIdle
    /\ ResultIdle
    /\ s_ID_Counter = 0
    /\ objs = <<>>
    /\ outcome = NoOutcome
    /\ synchronized \in BOOLEAN
    /\ lock = "free"
    /\ pc = [t \in Threads |-> "idle"]
    /\ tmp = [t \in Threads |-> 0]

NextRace ==
    \/ \E t \in Threads : Begin(t)
    \/ \E t \in Threads : Load(t)
    \/ \E t \in Threads : Store(t)
    \/ \E t \in Threads : Finish(t)

SpecRace == InitRace /\ [][NextRace]_vars

(***************************************************************************)
(* Properties of the combinators under threads.                            *)
(***************************************************************************)
DuplicateId ==
    \E i, j \in 1..Len(objs) : i # j /\ parser_id(objs[i]) = parser_id(objs[j])

LostIncrement == underway = 0 /\ s_ID_Counter < Len(objs)

\* C7: when the constructions are serialized no two instances get the same
\* identity and no increment is lost; without synchronization an interleaving
\* of the reads and writes of the counter gives both (C7_Witness).
C7_SerializedIdsDistinct ==
    synchronized =>
        /\ ~DuplicateId
        /\ underway = 0 => s_ID_Counter = Len(objs)

\* two threads raced: two instances share an identity and the counter ends
\* lower than the number of constructions
C7_Witness ==
    /\ ~synchronized
    /\ DuplicateId
    /\ LostIncrement
    /\ Len(objs) = 2

====
